---------------------------- MODULE Spec2Model ----------------------------
(***************************************************************************)
(* Repo2Doc Agent: the LangGraph workflow                                  *)
(*   init -> generate_doc -> check_completeness                            *)
(*        -> (execute_tools -> generate_doc)* -> save_output -> END        *)
(* over one AgentState.  One action per graph node; each action is the     *)
(* node function followed by the conditional edge that leaves the node.    *)
(*                                                                         *)
(* Values are typed as the source declares them: the configuration         *)
(* integers are unconstrained `int` fields, a verdict is the               *)
(* Tuple[bool, float, list[str], list[dict]] of _evaluate_completeness.    *)
(* Confidence scores are kept in hundredths (0.7 is 70).                   *)
(***************************************************************************)
EXTENDS Integers, Sequences, FiniteSets, TLC

----------------------------------------------------------------------------
(* Bounds of the model *)

MaxIterations == 2
MaxToolCalls == 2
MaxProposals == 2
MaxEvaluateIteration == 4
MaxRuns == 2

(* Values max_iterations and max_tool_calls_per_iteration are drawn from:   *)
(* AgentConfig declares both as plain int, so zero and negatives load.      *)
IterationChoices == (-1) .. MaxIterations
ToolCallChoices == (-1) .. MaxToolCalls

----------------------------------------------------------------------------
(* Strings of the state, by content *)

None == "<None>"

EmptyStr == [kind |-> "text", val |-> << >>]

(* json.dumps(suggested_tools, ensure_ascii=False) *)
JsonDumps(val) == [kind |-> "json", val |-> val]

(* "\n\n".join(results): the empty string when there is no result *)
JoinResults(results) == [kind |-> "text", val |-> results]

(* truth value of a str: false only for "" *)
Truthy(str) == str # EmptyStr

(* json.loads of a state string; ok = FALSE stands for JSONDecodeError,    *)
(* which the tool-result text (it starts with "### ") always raises.        *)
JsonLoads(str) ==
    IF str.kind = "json" THEN [ok |-> TRUE, val |-> str.val]
    ELSE [ok |-> FALSE, val |-> << >>]

Min(a, b) == IF a <= b THEN a ELSE b
Max(a, b) == IF a >= b THEN a ELSE b

(* Python's seq[:n]: the first n elements, or all but the last -n for n < 0 *)
SliceTo(seq, n) ==
    IF n >= 0 THEN SubSeq(seq, 1, Min(n, Len(seq)))
    ELSE SubSeq(seq, 1, Max(0, Len(seq) + n))

----------------------------------------------------------------------------
(* The capability registry and what the oracle may propose *)

TOOL_REGISTRY ==
    { "get_file_content", "get_file_outline", "get_function_info",
      "get_class_info", "search_code", "search_imports",
      "list_files_by_extension" }

(* The arguments of a proposed call, by what happens to them:              *)
(* "valid": the handler's argument schema accepts them and the file is      *)
(*    there;                                                                *)
(* "invalid": tool_fn.invoke raises (a required argument is missing);       *)
(* "missing_file": the schema accepts them, the file they name does not     *)
(*    exist or cannot be read;                                              *)
(* "not_a_dict": the value under "args" is no dict, so the injection of     *)
(*    repo_path raises before the handler is reached.                       *)
(* repo_path is the value the oracle put under that key: "absent", or       *)
(* "other" for a path that is not the run's repository root.                *)
(* length is the number of characters of the text the call gives back:     *)
(* str(result) when the handler returns, str(e) when the call raises.       *)
(* The text of a handler is as long as the file or listing it renders; the  *)
(* text of an exception is the message of whatever tool_fn.invoke raised.   *)
ArgsWithOutput(kind, repo_path, length) ==
    [kind |-> kind, repo_path |-> repo_path, length |-> length]

Args(kind, repo_path) == ArgsWithOutput(kind, repo_path, 120)

ToolSpecs ==
    { [tool |-> "get_file_content", args |-> Args("valid", "absent")],
      [tool |-> "get_file_content", args |-> Args("invalid", "absent")],
      [tool |-> "get_file_content", args |-> Args("missing_file", "absent")],
      [tool |-> "unknown_tool", args |-> Args("valid", "absent")] }

ProposalLists == UNION { [1..n -> ToolSpecs] : n \in 0..MaxProposals }

----------------------------------------------------------------------------
(* Oracle replies and storage outcomes: the environment *)

(* The text of a synthesis reply is opaque to the code (it is stored,      *)
(* quoted in prompts and written out, never inspected): the k-th reply's    *)
(* text is one fresh value.                                                 *)
DocumentOf(k) == "doc_" \o ToString(k)

Documents == { DocumentOf(k) : k \in 1..(MaxIterations + 1) }

SynthesisReplies ==
    { [kind |-> "raise", content |-> ""] } \cup
    { [kind |-> "text", content |-> d] : d \in Documents }

Confidences == { 40, 120 }

MissingLists == { << "data model" >> }

EvaluationKeys ==
    { "is_complete", "confidence_score", "missing_parts", "suggested_tools" }

(* The JSON object of an evaluation reply: any of the four keys may be      *)
(* missing (a missing key is given one fixed value, which is never read).   *)
EvaluationObjects ==
    { o \in [ keys : { EvaluationKeys } \cup
                     { EvaluationKeys \ {k} : k \in EvaluationKeys },
              is_complete : BOOLEAN,
              confidence_score : Confidences,
              missing_parts : MissingLists,
              suggested_tools : ProposalLists ] :
        /\ "is_complete" \notin o.keys => o.is_complete = FALSE
        /\ "confidence_score" \notin o.keys => o.confidence_score = 40
        /\ "suggested_tools" \notin o.keys => o.suggested_tools = << >> }

NoObject ==
    [ keys |-> {}, is_complete |-> FALSE, confidence_score |-> 40,
      missing_parts |-> << "data model" >>, suggested_tools |-> << >> ]

(* "raise": llm.invoke raises; "prose": no {...} block in the reply;        *)
(* "badjson": a block that json.loads rejects; "json": a block that parses. *)
EvaluationReplies ==
    { [kind |-> k, obj |-> NoObject] : k \in { "raise", "prose", "badjson" } }
    \cup { [kind |-> "json", obj |-> o] : o \in EvaluationObjects }

SelectionReplies ==
    { [kind |-> k, has_tool_calls |-> FALSE, tool_calls |-> << >>] :
        k \in { "raise", "prose", "badjson", "json" } }
    \cup { [kind |-> "json", has_tool_calls |-> TRUE, tool_calls |-> t] :
             t \in ProposalLists }

SaveOutcomes == { "ok", "mkdir_fails", "write_fails" }

----------------------------------------------------------------------------
VARIABLES
    pc,                    \* the node the graph runs next, "END", or "raised"
    repo_exists,           \* Path(repo_path).exists()
    max_tool_calls,        \* config.agent.max_tool_calls_per_iteration
    max_iterations,        \* AgentState fields
    iteration_count,
    high_level_info,
    current_document,
    document_versions,
    current_tool_results,
    is_complete,
    confidence_score,
    missing_parts,
    exploration_history,
    status,
    error,
    synth_calls,           \* history: synthesis oracle calls that returned
    raised_by,             \* history: what raised out of the graph
    verdict,               \* history: the last evaluate step's verdict,
                           \*   where it came from and the kind of reply
    never_complete,        \* history: every evaluation reply so far was a
                           \*   parseable verdict with is_complete = false
    pass,                  \* history: the dispatch pass just made (what
                           \*   was proposed, selected, invoked), until the
                           \*   synthesis call that consumes its bundle
    synth_input,           \* history: what the synthesis call just made
                           \*   was given, until the next evaluate step
    run_states,            \* several runs of one workflow object: each
                           \*   run's AgentState, its lists by reference
    heap,                  \* the list objects those references name
    saved_document         \* history: the text written to the output file

vars == << pc, repo_exists, max_tool_calls, max_iterations, iteration_count,
           high_level_info, current_document, document_versions,
           current_tool_results, is_complete, confidence_score, missing_parts,
           exploration_history, status, error, synth_calls, raised_by,
           verdict, never_complete, pass, synth_input, run_states, heap,
           saved_document >>

NoVerdict == [source |-> "none", reply |-> "none", is_complete |-> FALSE]

NoInput ==
    [ mode |-> "none", high_level_info |-> "", current_document |-> "",
      tool_results |-> EmptyStr, missing_parts |-> << >> ]

RunIds == 1..MaxRuns

NotStarted ==
    [ pc |-> "none", iteration_count |-> 0, current_document |-> "",
      document_versions |-> 0, exploration_history |-> 0 ]

NoPass == [proposed |-> << >>, selection |-> "none", candidates |-> << >>,
           invoked |-> << >>, received |-> << >>, selected_nothing |-> FALSE]

----------------------------------------------------------------------------
(* create_initial_state, with the workflow about to enter "init" *)

Init ==
    /\ pc = "init"
    /\ repo_exists \in BOOLEAN
    /\ max_tool_calls \in ToolCallChoices
    /\ max_iterations \in IterationChoices
    /\ iteration_count = 0
    /\ high_level_info = ""
    /\ current_document = ""
    /\ document_versions = << >>
    /\ current_tool_results = EmptyStr
    /\ is_complete = FALSE
    /\ confidence_score = 0
    /\ missing_parts = << >>
    /\ exploration_history = << >>
    /\ status = "initialized"
    /\ error = None
    /\ synth_calls = 0
    /\ raised_by = "none"
    /\ verdict = NoVerdict
    /\ never_complete = TRUE
    /\ pass = NoPass
    /\ synth_input = NoInput
    /\ run_states = [ r \in RunIds |-> NotStarted ]
    /\ heap = << >>
    /\ saved_document = None

----------------------------------------------------------------------------
(* Conditional edges *)

_check_error(st) == IF st = "error" THEN "error" ELSE "continue"

_route_after_check(st, complete) ==
    IF st = "error" THEN "error"
    ELSE IF complete THEN "complete"
    ELSE "explore"

EdgeFromInitIgnoringError(st) == "generate_doc"

EdgeFromInit(st) ==
    IF _check_error(st) = "continue" THEN "generate_doc" ELSE "END"

EdgeFromGenerateDocToEnd(st) == "END"

EdgeFromGenerateDoc(st) ==
    IF _check_error(st) = "continue" THEN "check_completeness" ELSE "END"

EdgeFromCheckSkippingSynthesis(st, complete) ==
    CASE _route_after_check(st, complete) = "complete" -> "save_output"
      [] _route_after_check(st, complete) = "explore" -> "check_completeness"
      [] OTHER -> "END"

EdgeFromCheck(st, complete) ==
    CASE _route_after_check(st, complete) = "complete" -> "save_output"
      [] _route_after_check(st, complete) = "explore" -> "execute_tools"
      [] OTHER -> "END"

EdgeFromExecuteToolsToCheck(st) ==
    IF _check_error(st) = "continue" THEN "check_completeness" ELSE "END"

EdgeFromExecuteTools(st) ==
    IF _check_error(st) = "continue" THEN "generate_doc" ELSE "END"

----------------------------------------------------------------------------
(* init_node *)

init_node ==
    /\ pc = "init"
    /\ IF ~repo_exists
       THEN /\ status' = "error"
            /\ error' = "repo_missing"
            /\ high_level_info' = high_level_info
       ELSE /\ status' = "initialized"
            /\ error' = error
            /\ high_level_info' = "seed"
    /\ pc' = EdgeFromInit(status')
    /\ UNCHANGED << run_states, heap, saved_document, synth_input >>
    /\ UNCHANGED << repo_exists, max_tool_calls, max_iterations,
                    iteration_count, current_document, document_versions,
                    current_tool_results, is_complete, confidence_score,
                    missing_parts, exploration_history, synth_calls,
                    raised_by, verdict, never_complete, pass >>

----------------------------------------------------------------------------
(* generate_doc_node: one synthesis call (the first from the seed, later    *)
(* ones from the evidence bundle), then the four state updates.             *)

NextIterationCount(count) == count + 1

SynthesisInputFromSeed(count, info, doc, results, missing) ==
    [ mode |-> IF count = 0 THEN "initial" ELSE "update",
      high_level_info |-> info, current_document |-> "",
      tool_results |-> EmptyStr, missing_parts |-> << >> ]

(* what the synthesis prompt is built from: the seed on the first call      *)
(* (iteration_count == 0), later the document so far, the pending tool      *)
(* results and the missing parts                                            *)
SynthesisInput(count, info, doc, results, missing) ==
    IF count = 0
    THEN [ mode |-> "initial", high_level_info |-> info,
           current_document |-> "", tool_results |-> EmptyStr,
           missing_parts |-> << >> ]
    ELSE [ mode |-> "update", high_level_info |-> "",
           current_document |-> doc, tool_results |-> results,
           missing_parts |-> missing ]

KeptToolResults(results) == results

(* state["current_tool_results"] = "" *)
ClearedToolResults(results) == EmptyStr

ReplaceVersion(versions, doc) == << doc >>

AppendVersion(versions, doc) == Append(versions, doc)

generate_doc_node ==
    /\ pc = "generate_doc"
    /\ \E reply \in { r \in SynthesisReplies :
                        r.kind = "text" => r.content = DocumentOf(synth_calls + 1) } :
         IF reply.kind = "raise"
         THEN /\ pc' = "raised"
              /\ raised_by' = "oracle"
              /\ UNCHANGED << current_document, document_versions,
                              iteration_count, current_tool_results, status,
                              synth_calls >>
         ELSE /\ current_document' = reply.content
              /\ document_versions' = AppendVersion(document_versions, reply.content)
              /\ iteration_count' = NextIterationCount(iteration_count)
              /\ current_tool_results' = ClearedToolResults(current_tool_results)
              /\ status' = "doc_generated"
              /\ synth_calls' = synth_calls + 1
              /\ pc' = EdgeFromGenerateDoc(status')
              /\ UNCHANGED raised_by
    /\ pass' = IF pc' = "raised" THEN pass ELSE NoPass
    /\ synth_input' = SynthesisInput(iteration_count, high_level_info,
                                     current_document, current_tool_results,
                                     missing_parts)
    /\ UNCHANGED << run_states, heap, saved_document >>
    /\ UNCHANGED << repo_exists, max_tool_calls, max_iterations,
                    high_level_info, is_complete, confidence_score,
                    missing_parts, exploration_history, error, verdict,
                    never_complete >>

----------------------------------------------------------------------------
(* check_completeness_node *)

FallbackThreshold == 3
FallbackConfidence == 70
DefaultConfidence == 50

ConfidenceResetAtCap(score) == 0

(* the cap branch returns before confidence_score is assigned *)
ConfidenceAtCap(score) == score

CapReachedStrict(count, max) == count > max

CapReached(count, max) == count >= max

(* What leaves _evaluate_completeness as an exception: llm.invoke stands   *)
(* before the try; inside it a reply without a block takes the fallback     *)
(* dict and json.JSONDecodeError is caught.                                 *)
EvaluationRaisesOnBadJson(reply) == reply.kind \in { "raise", "badjson" }

EvaluationRaises(reply) == reply.kind = "raise"

(* dict.get(key, default) on the parsed object *)
GetOr(obj, key, default) == IF key \in obj.keys THEN obj[key] ELSE default

(* "is_complete": iteration >= 3 in the dict used when no block is found *)
ForcedCompleteAfterThreshold(iteration) == iteration > FallbackThreshold

ForcedComplete(iteration) == iteration >= FallbackThreshold

(* _evaluate_completeness once llm.invoke has returned *)
_evaluate_completeness(reply, iteration) ==
    CASE reply.kind = "prose" ->
           [ is_complete |-> ForcedComplete(iteration),
             confidence_score |-> FallbackConfidence,
             missing_parts |-> << >>,
             suggested_tools |-> << >> ]
      [] reply.kind = "badjson" ->
           [ is_complete |-> FALSE,
             confidence_score |-> DefaultConfidence,
             missing_parts |-> << "unable to assess" >>,
             suggested_tools |-> << >> ]
      [] OTHER ->
           [ is_complete |-> GetOr(reply.obj, "is_complete", FALSE),
             confidence_score |->
                 GetOr(reply.obj, "confidence_score", DefaultConfidence),
             missing_parts |-> GetOr(reply.obj, "missing_parts", << >>),
             suggested_tools |-> GetOr(reply.obj, "suggested_tools", << >>) ]

VerdictIsCompleteIfConfident(v) == v.is_complete /\ v.confidence_score >= 80

VerdictIsComplete(v) == v.is_complete

(* a parseable verdict that says is_complete = false *)
SaysIncomplete(reply) ==
    /\ reply.kind = "json"
    /\ "is_complete" \in reply.obj.keys
    /\ reply.obj.is_complete = FALSE

check_completeness_node ==
    /\ pc = "check_completeness"
    /\ IF CapReached(iteration_count, max_iterations)
       THEN /\ is_complete' = TRUE
            /\ status' = "completed"
            /\ verdict' = [ source |-> "cap", reply |-> "none",
                            is_complete |-> TRUE ]
            /\ pc' = EdgeFromCheck(status', is_complete')
            /\ confidence_score' = ConfidenceAtCap(confidence_score)
            /\ UNCHANGED << missing_parts,
                            current_tool_results, raised_by, never_complete >>
       ELSE \E reply \in EvaluationReplies :
              IF EvaluationRaises(reply)
              THEN /\ pc' = "raised"
                   /\ raised_by' = "oracle"
                   /\ verdict' = [ source |-> "raise", reply |-> reply.kind,
                                   is_complete |-> FALSE ]
                   /\ UNCHANGED << is_complete, confidence_score,
                                   missing_parts, current_tool_results,
                                   status, never_complete >>
              ELSE LET v == _evaluate_completeness(reply, iteration_count) IN
                   /\ is_complete' = VerdictIsComplete(v)
                   /\ confidence_score' = v.confidence_score
                   /\ missing_parts' = v.missing_parts
                   /\ IF is_complete'
                      THEN /\ status' = "completed"
                           /\ UNCHANGED current_tool_results
                      ELSE /\ status' = "needs_exploration"
                           /\ current_tool_results' = JsonDumps(v.suggested_tools)
                   /\ verdict' = [ source |-> IF reply.kind = "json"
                                              THEN "oracle" ELSE "fallback",
                                   reply |-> reply.kind,
                                   is_complete |-> v.is_complete ]
                   /\ never_complete' = (never_complete /\ SaysIncomplete(reply))
                   /\ pc' = EdgeFromCheck(status', is_complete')
                   /\ UNCHANGED raised_by
    /\ synth_input' = NoInput
    /\ UNCHANGED << run_states, heap, saved_document >>
    /\ UNCHANGED << repo_exists, max_tool_calls, max_iterations,
                    iteration_count, high_level_info, current_document,
                    document_versions, exploration_history, error,
                    synth_calls, pass >>

----------------------------------------------------------------------------
(* tool_execution_node *)

DefaultToolCalls ==
    << [tool |-> "list_files_by_extension", args |-> Args("valid", "absent")] >>

(* the evaluator's proposals, read back from current_tool_results *)
SuggestedTools(str) ==
    IF Truthy(str)
    THEN IF JsonLoads(str).ok THEN JsonLoads(str).val ELSE << >>
    ELSE << >>

(* _select_tools_with_llm: the reply's tool_calls when a block parses, the  *)
(* fixed default call when the call raises or no block parses.              *)
(* the selection reply held a block that parsed, with no "tool_calls" key  *)
(* or an empty list under it                                                *)
SelectsNothing(reply) ==
    /\ reply.kind = "json"
    /\ (~reply.has_tool_calls \/ reply.tool_calls = << >>)

SelectDefaultWhenEmpty(reply) ==
    IF reply.kind = "json" /\ reply.has_tool_calls /\ reply.tool_calls # << >>
    THEN reply.tool_calls
    ELSE DefaultToolCalls

SelectNothingOnFailure(reply) ==
    IF reply.kind = "json"
    THEN IF reply.has_tool_calls THEN reply.tool_calls ELSE << >>
    ELSE << >>

_select_tools_with_llm(reply) ==
    IF reply.kind = "json"
    THEN IF reply.has_tool_calls THEN reply.tool_calls ELSE << >>
    ELSE DefaultToolCalls

DocumentTruncatedInPlace(doc) == "doc_cut"

(* document=state["current_document"][:2000] in the selection prompt: the   *)
(* slice is a copy, the state keeps the whole document                      *)
DocumentAfterSelection(doc) == doc

(* `if not suggested_tools:` *)
NeedsSelection(suggested) == suggested = << >>

(* suggested_tools[:max_tools] *)
LimitToolCalls(candidates, max_tools) == SliceTo(candidates, max_tools)

IsRegisteredAlways(tool_name) == TRUE

IsRegistered(tool_name) == tool_name \in TOOL_REGISTRY

(* args["repo_path"] = repo_path: item assignment, which replaces a value  *)
(* the oracle supplied and raises when args is no dict                      *)
InjectionSucceeds(args) == args.kind # "not_a_dict"

InjectRepoPathIfAbsent(args) ==
    IF InjectionSucceeds(args) /\ args.repo_path = "absent"
    THEN [args EXCEPT !.repo_path = "repo_root"]
    ELSE args

InjectRepoPath(args) ==
    IF InjectionSucceeds(args)
    THEN [args EXCEPT !.repo_path = "repo_root"]
    ELSE args

(* tool_fn.invoke(args) returns, or raises on arguments the schema         *)
(* rejects.  The handlers catch their own exceptions: for a file that is    *)
(* missing or unreadable invoke returns a text that starts with the word    *)
(* for "error".                                                             *)
InvokeSucceeds(tool_spec) ==
    tool_spec.args.kind \in { "valid", "missing_file" }

(* what the handler, or the exception, gives as the call's result *)
ResultOf(tool_spec) ==
    CASE tool_spec.args.kind = "valid" -> "content"
      [] tool_spec.args.kind = "missing_file" -> "error_message"
      [] OTHER -> "exception_text"

ResultLimit == 2000

(* str(result)[:2000] *)
Truncated(length) == Min(length, ResultLimit)

(* len of the recorded result: the handler's text is cut to 2000            *)
(* characters, the exception's text (`result=str(e)`) is kept whole         *)
ResultLengthOf(tool_spec) ==
    IF InvokeSucceeds(tool_spec)
    THEN Truncated(tool_spec.args.length)
    ELSE tool_spec.args.length

(* `arguments=args`: the dict the injection has updated in place *)
ToolCallOf(tool_spec) ==
    [ tool_name |-> tool_spec.tool,
      arguments |-> InjectRepoPath(tool_spec.args),
      result |-> ResultOf(tool_spec),
      result_length |-> ResultLengthOf(tool_spec),
      success |-> InvokeSucceeds(tool_spec) ]

(* the for loop: unregistered names `continue`, the others are invoked and  *)
(* recorded, in order                                                       *)
Executed(batch) == SelectSeq(batch, LAMBDA t : IsRegistered(t.tool))

(* the arguments each handler was invoked with, in order *)
ReceivedBy(batch) ==
    LET reached == SelectSeq(Executed(batch),
                             LAMBDA t : InjectionSucceeds(t.args))
    IN  [ i \in 1..Len(reached) |-> InjectRepoPath(reached[i].args) ]

ToolCallsUntilFailure(batch) ==
    LET calls == [ i \in 1..Len(Executed(batch)) |->
                     ToolCallOf(Executed(batch)[i]) ]
        failed == { i \in 1..Len(calls) : ~calls[i].success }
    IN  IF failed = {} THEN calls
        ELSE SubSeq(calls, 1, CHOOSE i \in failed : \A j \in failed : i <= j)

ToolCallsOf(batch) ==
    [ i \in 1..Len(Executed(batch)) |-> ToolCallOf(Executed(batch)[i]) ]

ResultsOf(tool_calls) ==
    [ i \in 1..Len(tool_calls) |->
        [ tool |-> tool_calls[i].tool_name, ok |-> tool_calls[i].success ] ]

SuccessesCountingAll(tool_calls) == Len(tool_calls)

(* len([t for t in tool_calls if t.success]) *)
Successes(tool_calls) ==
    Len(SelectSeq(tool_calls, LAMBDA c : c.success))

(* the node once the candidate calls are known *)
ExecuteCandidates(suggested, candidates, selection, nothing) ==
    LET batch == LimitToolCalls(candidates, max_tool_calls)
        tool_calls == ToolCallsOf(batch)
    IN  /\ exploration_history' =
              Append(exploration_history,
                     [ iteration |-> iteration_count,
                       action |-> Len(tool_calls),
                       findings |-> Successes(tool_calls),
                       tool_calls |-> tool_calls ])
        /\ current_tool_results' = JoinResults(ResultsOf(tool_calls))
        /\ status' = "tools_executed"
        /\ pass' = [ proposed |-> suggested,
                     selection |-> selection,
                     candidates |-> candidates,
                     invoked |-> [ i \in 1..Len(Executed(batch)) |->
                                     Executed(batch)[i].tool ],
                     received |-> ReceivedBy(batch),
                     selected_nothing |-> nothing ]
        /\ pc' = EdgeFromExecuteTools(status')

tool_execution_node ==
    /\ pc = "execute_tools"
    /\ LET suggested == SuggestedTools(current_tool_results) IN
       IF NeedsSelection(suggested)
       THEN \E reply \in SelectionReplies :
              ExecuteCandidates(suggested, _select_tools_with_llm(reply),
                                IF reply.kind = "json" THEN "llm" ELSE "default",
                                SelectsNothing(reply))
       ELSE ExecuteCandidates(suggested, suggested, "evaluator", FALSE)
    /\ current_document' =
          IF NeedsSelection(SuggestedTools(current_tool_results))
          THEN DocumentAfterSelection(current_document)
          ELSE current_document
    /\ UNCHANGED << run_states, heap, saved_document, synth_input >>
    /\ UNCHANGED << repo_exists, max_tool_calls, max_iterations,
                    iteration_count, high_level_info,
                    document_versions, is_complete, confidence_score,
                    missing_parts, error, synth_calls, raised_by, verdict,
                    never_complete >>

----------------------------------------------------------------------------
(* save_output_node, then the edge save_output -> END *)

ErrorLeftUnset(err) == err

(* state["error"] = f"保存输出失败: {e}" *)
SaveError(err) == "save_failed"

FirstVersion(doc, versions) == IF versions = << >> THEN "" ELSE versions[1]

(* document = state.get("current_document", ""), written to doc_path *)
DocumentToSave(doc, versions) == doc

(* "mkdir_fails": nothing is written.  "write_fails": one of the writes in  *)
(* the try raised, the first or a later one, so the output file may hold    *)
(* the document or not ("unknown").  Otherwise the file holds the document. *)
save_output_node ==
    /\ pc = "save_output"
    /\ \E outcome \in SaveOutcomes :
         CASE outcome = "mkdir_fails" ->
                /\ pc' = "raised"
                /\ raised_by' = "storage"
                /\ UNCHANGED << status, error, saved_document >>
           [] outcome = "write_fails" ->
                /\ status' = "error"
                /\ error' = SaveError(error)
                /\ saved_document' = "unknown"
                /\ pc' = "END"
                /\ UNCHANGED raised_by
           [] OTHER ->
                /\ status' = "completed"
                /\ saved_document' =
                      DocumentToSave(current_document, document_versions)
                /\ pc' = "END"
                /\ UNCHANGED << error, raised_by >>
    /\ UNCHANGED << run_states, heap, synth_input >>
    /\ UNCHANGED << repo_exists, max_tool_calls, max_iterations,
                    iteration_count, high_level_info, current_document,
                    document_versions, current_tool_results, is_complete,
                    confidence_score, missing_parts, exploration_history,
                    synth_calls, verdict, never_complete, pass >>

----------------------------------------------------------------------------
(* graph.invoke: the nodes run one at a time until END or an exception *)

Next ==
    \/ init_node
    \/ generate_doc_node
    \/ check_completeness_node
    \/ tool_execution_node
    \/ save_output_node

Spec == Init /\ [][Next]_vars

(* graph.invoke runs the next node as soon as the last one has returned *)
FairSpec == Spec /\ WF_vars(Next)

Terminated == pc \in { "END", "raised" }

TypeOK ==
    /\ pc \in { "init", "generate_doc", "check_completeness", "execute_tools",
                "save_output", "END", "raised" }
    /\ status \in { "initialized", "doc_generated", "needs_exploration",
                    "tools_executed", "completed", "error" }
    /\ iteration_count \in 0..(MaxIterations + 1)
    /\ is_complete \in BOOLEAN

----------------------------------------------------------------------------
(* The evaluate step alone, entered at any depth of a run.  The start      *)
(* states are those a run is in when it enters check_completeness_node for  *)
(* the k-th time after k - 1 evaluation replies that held a block           *)
(* json.loads rejects and k - 1 dispatch passes whose selection call        *)
(* raised (so each pass made the default call, cut to the budget).          *)

UnparseableReply == [kind |-> "badjson", obj |-> NoObject]

FailedSelection ==
    [kind |-> "raise", has_tool_calls |-> FALSE, tool_calls |-> << >>]

EarlierRecord(iteration, max_tools) ==
    LET tool_calls ==
            ToolCallsOf(LimitToolCalls(_select_tools_with_llm(FailedSelection),
                                       max_tools))
    IN  [ iteration |-> iteration,
          action |-> Len(tool_calls),
          findings |-> Successes(tool_calls),
          tool_calls |-> tool_calls ]

EvaluateInit ==
    /\ pc = "check_completeness"
    /\ repo_exists = TRUE
    /\ max_tool_calls \in ToolCallChoices
    /\ iteration_count \in 1..MaxEvaluateIteration
    /\ max_iterations \in (-1)..(MaxEvaluateIteration + 1)
    /\ iteration_count > 1 => iteration_count <= max_iterations
    /\ high_level_info = "seed"
    /\ current_document = DocumentOf(iteration_count)
    /\ document_versions = [ i \in 1..iteration_count |-> DocumentOf(i) ]
    /\ current_tool_results = EmptyStr
    /\ exploration_history =
          [ i \in 1..(iteration_count - 1) |-> EarlierRecord(i, max_tool_calls) ]
    /\ LET v == _evaluate_completeness(UnparseableReply, iteration_count - 1) IN
       IF iteration_count = 1
       THEN /\ is_complete = FALSE
            /\ confidence_score = 0
            /\ missing_parts = << >>
            /\ verdict = NoVerdict
            /\ never_complete = TRUE
       ELSE /\ is_complete = VerdictIsComplete(v)
            /\ confidence_score = v.confidence_score
            /\ missing_parts = v.missing_parts
            /\ verdict = [ source |-> "fallback", reply |-> "badjson",
                           is_complete |-> v.is_complete ]
            /\ never_complete = FALSE
    /\ status = "doc_generated"
    /\ error = None
    /\ synth_calls = iteration_count
    /\ raised_by = "none"
    /\ pass = NoPass
    /\ synth_input =
          SynthesisInput(iteration_count - 1, high_level_info,
                         DocumentOf(iteration_count - 1),
                         JoinResults(ResultsOf(
                             EarlierRecord(iteration_count - 1,
                                           max_tool_calls).tool_calls)),
                         missing_parts)
    /\ run_states = [ r \in RunIds |-> NotStarted ]
    /\ heap = << >>
    /\ saved_document = None

EvaluateNext == check_completeness_node

EvaluateSpec == EvaluateInit /\ [][EvaluateNext]_vars

----------------------------------------------------------------------------
(* The dispatch pass alone, on any proposals.  The start states are those   *)
(* a run is in when it enters tool_execution_node for the first time: the   *)
(* first evaluation reply was a verdict with is_complete = false whose      *)
(* suggested_tools may carry their own repo_path or a value under "args"    *)
(* that is no dict.                                                         *)

(* a text longer than the 2000 characters a recorded result is cut to *)
LongOutput == ResultLimit + 500

DispatchToolSpecs ==
    { [tool |-> "get_file_content", args |-> Args(k, r)] :
        k \in { "valid", "invalid", "missing_file" },
        r \in { "absent", "other" } }
    \cup { [tool |-> "get_file_content", args |-> Args("not_a_dict", "absent")],
           [tool |-> "unknown_tool", args |-> Args("valid", "other")] }
    \cup { [tool |-> "get_file_content",
            args |-> ArgsWithOutput(k, "absent", LongOutput)] :
             k \in { "valid", "invalid" } }

DispatchProposalLists ==
    UNION { [1..n -> DispatchToolSpecs] : n \in 0..MaxProposals }

DispatchInit ==
    /\ pc = "execute_tools"
    /\ repo_exists = TRUE
    /\ max_tool_calls \in ToolCallChoices
    /\ max_iterations \in 2..MaxIterations
    /\ iteration_count = 1
    /\ high_level_info = "seed"
    /\ current_document = DocumentOf(1)
    /\ document_versions = << DocumentOf(1) >>
    /\ \E suggested \in DispatchProposalLists :
          current_tool_results = JsonDumps(suggested)
    /\ is_complete = FALSE
    /\ confidence_score \in Confidences
    /\ missing_parts \in MissingLists
    /\ exploration_history = << >>
    /\ status = "needs_exploration"
    /\ error = None
    /\ synth_calls = 1
    /\ raised_by = "none"
    /\ verdict = [source |-> "oracle", reply |-> "json", is_complete |-> FALSE]
    /\ never_complete = TRUE
    /\ pass = NoPass
    /\ synth_input = NoInput
    /\ run_states = [ r \in RunIds |-> NotStarted ]
    /\ heap = << >>
    /\ saved_document = None

DispatchNext == tool_execution_node

DispatchSpec == DispatchInit /\ [][DispatchNext]_vars

----------------------------------------------------------------------------
(* An interruption of the run (main.py: KeyboardInterrupt is caught around  *)
(* workflow.run, a message is printed and the process exits with 130).      *)
(* The code has no cancellation test between nodes: the exception is        *)
(* raised wherever the run stands, between two nodes, inside a node before  *)
(* its first assignment (while llm.invoke waits), or among the assignments  *)
(* of a node.  The last case is modelled for generate_doc_node: the new     *)
(* text is stored and appended, iteration_count is not yet incremented.     *)

Running ==
    pc \in { "init", "generate_doc", "check_completeness", "execute_tools",
             "save_output" }

interrupt ==
    /\ Running
    /\ pc' = "raised"
    /\ raised_by' = "interrupt"
    /\ \/ UNCHANGED << current_document, document_versions >>
       \/ /\ pc = "generate_doc"
          /\ current_document' = DocumentOf(synth_calls + 1)
          /\ document_versions' =
                AppendVersion(document_versions, DocumentOf(synth_calls + 1))
    /\ UNCHANGED << run_states, heap, saved_document, synth_input >>
    /\ UNCHANGED << repo_exists, max_tool_calls, max_iterations,
                    iteration_count, high_level_info, current_tool_results,
                    is_complete, confidence_score, missing_parts,
                    exploration_history, status, error, synth_calls, verdict,
                    never_complete, pass >>

InterruptNext == Next \/ interrupt

InterruptSpec == Init /\ [][InterruptNext]_vars

----------------------------------------------------------------------------
(* Several runs of one workflow object, interleaved node by node.  Each     *)
(* call of run() builds its AgentState with create_initial_state, whose     *)
(* list literals make new list objects; the nodes then update the lists in  *)
(* place.  A run is kept here by its position in the loop, its counter,     *)
(* its document and its two growing lists.                                  *)

SharedList(h, k) == k

(* the k-th list object a call of create_initial_state makes *)
NewList(h, k) == Len(h) + k

(* run(): create_initial_state, then graph.invoke enters the graph *)
start_run(r) ==
    /\ run_states[r].pc = "none"
    /\ LET versions == NewList(heap, 1)
           history == NewList(heap, 2)
       IN  /\ heap' = [ i \in 1..Max(Len(heap), history) |->
                          IF i <= Len(heap) THEN heap[i] ELSE << >> ]
           /\ run_states' =
                 [ run_states EXCEPT ![r] =
                     [ pc |-> "generate_doc", iteration_count |-> 0,
                       current_document |-> "",
                       document_versions |-> versions,
                       exploration_history |-> history ] ]

(* generate_doc_node and the evaluate step's routing, of run r *)
run_generate_doc(r) ==
    /\ run_states[r].pc = "generate_doc"
    /\ LET st == run_states[r]
           doc == DocumentOf(st.iteration_count + 1)
           count == NextIterationCount(st.iteration_count)
       IN  /\ heap' = [ heap EXCEPT ![st.document_versions] =
                                      AppendVersion(@, doc) ]
           /\ \E complete \in BOOLEAN :
                run_states' =
                  [ run_states EXCEPT ![r] =
                      [ st EXCEPT !.current_document = doc,
                                  !.iteration_count = count,
                                  !.pc = IF complete \/ CapReached(count, max_iterations)
                                         THEN "END" ELSE "execute_tools" ] ]

(* tool_execution_node of run r: one record appended, of however many     *)
(* calls the pass recorded                                                  *)
run_execute_tools(r) ==
    /\ run_states[r].pc = "execute_tools"
    /\ LET st == run_states[r] IN
       \E calls \in 0..MaxToolCalls :
         /\ heap' = [ heap EXCEPT ![st.exploration_history] =
                        Append(@, [ iteration |-> st.iteration_count,
                                    action |-> calls ]) ]
         /\ run_states' = [ run_states EXCEPT ![r].pc = "generate_doc" ]

(* the runs read one configuration, that of the workflow object *)
TwoRunInit ==
    /\ Init
    /\ repo_exists = TRUE
    /\ max_tool_calls = MaxToolCalls

TwoRunNext ==
    /\ \E r \in RunIds :
          \/ start_run(r)
          \/ run_generate_doc(r)
          \/ run_execute_tools(r)
    /\ UNCHANGED << pc, repo_exists, max_tool_calls, max_iterations,
                    iteration_count, high_level_info, current_document,
                    document_versions, current_tool_results, is_complete,
                    confidence_score, missing_parts, exploration_history,
                    status, error, synth_calls, raised_by, verdict,
                    never_complete, pass, synth_input, saved_document >>

TwoRunSpec == TwoRunInit /\ [][TwoRunNext]_vars

----------------------------------------------------------------------------
(* The whole workflow with an evaluator whose replies never hold a block:   *)
(* re.search finds no {...} in any of them.  max_iterations goes beyond the *)
(* iteration at which the fallback dict says is_complete.                   *)

ProseInit ==
    /\ pc = "init"
    /\ repo_exists = TRUE
    /\ max_tool_calls \in ToolCallChoices
    /\ max_iterations \in 1..(MaxEvaluateIteration + 1)
    /\ iteration_count = 0
    /\ high_level_info = ""
    /\ current_document = ""
    /\ document_versions = << >>
    /\ current_tool_results = EmptyStr
    /\ is_complete = FALSE
    /\ confidence_score = 0
    /\ missing_parts = << >>
    /\ exploration_history = << >>
    /\ status = "initialized"
    /\ error = None
    /\ synth_calls = 0
    /\ raised_by = "none"
    /\ verdict = NoVerdict
    /\ never_complete = TRUE
    /\ pass = NoPass
    /\ synth_input = NoInput
    /\ run_states = [ r \in RunIds |-> NotStarted ]
    /\ heap = << >>
    /\ saved_document = None

(* an evaluate step either stops at the cap or gets a reply without a block *)
ProseNext ==
    /\ Next
    /\ pc = "check_completeness" => verdict'.reply \in { "none", "prose" }

ProseSpec == ProseInit /\ [][ProseNext]_vars

----------------------------------------------------------------------------
(* Properties *)

PassedInit == high_level_info = "seed"

LastRecord == exploration_history[Len(exploration_history)]

(* C1: iteration_count never exceeds max_iterations in any reachable state, *)
(* for every max_iterations >= 0 the configuration accepts (a negative one  *)
(* is below the initial count already).                                     *)
C1_IterationWithinMax ==
    max_iterations >= 0 => iteration_count <= max_iterations

(* C2: a run that passed init and whose evaluation replies were all         *)
(* parseable verdicts with is_complete = false ends after exactly           *)
(* max_iterations synthesis calls, with exactly max_iterations versions     *)
(* (stated for max_iterations >= 0 and oracle calls that return).           *)
C2_ExactlyMaxSyntheses ==
    ( /\ Terminated /\ PassedInit /\ never_complete
      /\ raised_by # "oracle" /\ max_iterations >= 0 )
        => /\ synth_calls = max_iterations
           /\ Len(document_versions) = max_iterations

(* C3: whatever the oracle replies and whatever the capabilities return,    *)
(* every run eventually reaches a terminal state (END, or an exception      *)
(* that leaves graph.invoke).                                               *)
C3_RunTerminates == <>Terminated

C3_Witness ==
    /\ pc = "END"
    /\ status = "completed"
    /\ verdict.source = "cap"
    /\ missing_parts = << "unable to assess" >>
    /\ Len(exploration_history) >= 1
    /\ LastRecord.findings < LastRecord.action

(* C4: an evaluate step taken with iteration_count >= max_iterations goes   *)
(* to save_output, and execute_tools is never entered with                  *)
(* iteration_count >= max_iterations.                                       *)
C4_CapWins ==
    [][ /\ (pc = "check_completeness" /\ iteration_count >= max_iterations)
            => pc' = "save_output"
        /\ pc' = "execute_tools" => iteration_count' < max_iterations'
      ]_vars

C4_Witness ==
    /\ pc = "save_output"
    /\ verdict.source = "cap"
    /\ never_complete
    /\ iteration_count > 1
    /\ iteration_count = max_iterations

(* C5: an evaluate step whose verdict has is_complete = true goes to        *)
(* save_output, and no evaluate, dispatch or synthesis step is taken after  *)
(* such a verdict.                                                          *)
C5_CompleteGoesToPersist ==
    [][ verdict'.is_complete =>
          IF pc = "check_completeness"
          THEN pc' = "save_output"
          ELSE pc' \notin { "generate_doc", "check_completeness", "execute_tools" }
      ]_vars

C5_Witness ==
    /\ pc = "save_output"
    /\ verdict.source = "oracle"
    /\ verdict.is_complete
    /\ iteration_count < max_iterations

(* C6: from the first completed synthesize step on, document_versions has   *)
(* exactly iteration_count elements.                                        *)
C6_VersionsMatchCount ==
    synth_calls >= 1 => Len(document_versions) = iteration_count

C6_Witness ==
    /\ synth_calls = 2
    /\ Len(document_versions) = 2
    /\ pc = "check_completeness"

(* C7: a dispatch pass invokes, and records, at most                        *)
(* max_tool_calls_per_iteration calls (none when that budget is negative).  *)
C7_BatchWithinBudget ==
    /\ Len(pass.invoked) <= Max(0, max_tool_calls)
    /\ exploration_history # << >>
          => Len(LastRecord.tool_calls) <= Max(0, max_tool_calls)

(* C8: a name outside the registry is never invoked, and no recorded        *)
(* ToolCall (so none with success = true) carries such a name.              *)
C8_UnregisteredNeverRun ==
    /\ \A i \in 1..Len(pass.invoked) : pass.invoked[i] \in TOOL_REGISTRY
    /\ \A r \in 1..Len(exploration_history) :
         \A c \in 1..Len(exploration_history[r].tool_calls) :
            exploration_history[r].tool_calls[c].tool_name \in TOOL_REGISTRY

C8_Witness ==
    /\ status = "tools_executed"
    /\ Len(pass.invoked) >= 1
    /\ \E i \in 1..Len(pass.candidates) :
         /\ i <= max_tool_calls
         /\ pass.candidates[i].tool \notin TOOL_REGISTRY

RegisteredNames(candidates) ==
    LET reg == SelectSeq(candidates, LAMBDA t : t.tool \in TOOL_REGISTRY)
    IN  [ i \in 1..Len(reg) |-> reg[i].tool ]

(* C9: with a budget M >= 0 and k registered names among the candidates,    *)
(* the pass invokes the first min(M, k) registered-name candidates, however *)
(* many unregistered names stand before them.                               *)
C9_UnregisteredFreeOfBudget ==
    (pass.selection # "none" /\ max_tool_calls >= 0)
        => pass.invoked =
             SubSeq(RegisteredNames(pass.candidates), 1,
                    Min(max_tool_calls, Len(RegisteredNames(pass.candidates))))

(* C10: when the only proposal handed to a dispatch pass names a tool       *)
(* outside the registry, the pass uses the default selection (the selection *)
(* call or the fixed default call); stated for a budget of at least 1.      *)
C10_FallbackWhenOnlyUnknown ==
    ( /\ pass.selection # "none"
      /\ max_tool_calls >= 1
      /\ Len(pass.proposed) = 1
      /\ pass.proposed[1].tool \notin TOOL_REGISTRY )
        => pass.selection \in { "llm", "default" }

(* C11: a failing call does not stop a dispatch pass.  For a budget M >= 0  *)
(* the pass records one ToolCall for every registered-name candidate among  *)
(* the first M, in order, whether earlier calls failed or not; the evidence *)
(* bundle has one entry per recorded call (its result or its failure); and  *)
(* the next node is generate_doc.                                           *)
C11_FailureDoesNotStopBatch ==
    [][ (pc = "execute_tools" /\ max_tool_calls >= 0) =>
          LET within == SubSeq(pass'.candidates, 1,
                               Min(max_tool_calls, Len(pass'.candidates)))
              names == RegisteredNames(within)
              record == exploration_history'[Len(exploration_history')]
              bundle == current_tool_results'.val
          IN  /\ pass'.invoked = names
              /\ Len(record.tool_calls) = Len(names)
              /\ \A i \in 1..Len(names) :
                    record.tool_calls[i].tool_name = names[i]
              /\ Len(bundle) = Len(record.tool_calls)
              /\ \A i \in 1..Len(bundle) :
                    /\ bundle[i].tool = record.tool_calls[i].tool_name
                    /\ bundle[i].ok = record.tool_calls[i].success
              /\ pc' = "generate_doc"
      ]_vars

C11_Witness ==
    /\ status = "tools_executed"
    /\ pc = "generate_doc"
    /\ Len(LastRecord.tool_calls) = 2
    /\ ~LastRecord.tool_calls[1].success
    /\ LastRecord.tool_calls[2].success
    /\ Len(current_tool_results.val) = 2

(* the handler of a recorded call failed: its arguments were rejected, or   *)
(* the file it was to read is missing or unreadable                         *)
HandlerFailed(call) == call.result \in { "exception_text", "error_message" }

(* C12: every recorded ToolCall whose handler failed (bad arguments, or a   *)
(* file that is missing or unreadable) has success = false.                 *)
C12_FailureRecordedAsFailure ==
    \A r \in 1..Len(exploration_history) :
       \A c \in 1..Len(exploration_history[r].tool_calls) :
          HandlerFailed(exploration_history[r].tool_calls[c])
             => ~exploration_history[r].tool_calls[c].success

(* C13: when the repository root does not exist, the run ends at init with  *)
(* status error and an error description, iteration_count = 0 and no        *)
(* document version, and without any oracle call or capability call.        *)
C13_MissingRepoEndsAtInit ==
    (~repo_exists /\ pc # "init") =>
        /\ pc = "END"
        /\ status = "error"
        /\ error # None
        /\ iteration_count = 0
        /\ document_versions = << >>
        /\ synth_calls = 0 /\ raised_by = "none" /\ verdict = NoVerdict
        /\ pass = NoPass /\ exploration_history = << >>

C13_Witness ==
    /\ ~repo_exists
    /\ pc = "END"
    /\ error = "repo_missing"

(* C14: when the oracle call of a synthesize or evaluate step fails, the    *)
(* caller gets a final state with status error and an error description.    *)
C14_OracleFailureEndsInError ==
    raised_by = "oracle" => (pc = "END" /\ status = "error" /\ error # None)

(* C15: when a storage operation of the persist step fails (creating the    *)
(* output directory, or writing a file), the run ends with status error     *)
(* and an error description.                                                *)
C15_StorageFailureEndsInError ==
    (raised_by = "storage" \/ error = "save_failed") =>
        (pc = "END" /\ status = "error" /\ error # None)

(* C16: an evaluate step whose reply holds no recoverable verdict (no       *)
(* block, or a block that does not parse) neither raises nor sets status    *)
(* error: it takes a fallback verdict and goes on to execute_tools or       *)
(* save_output.                                                             *)
C16_MalformedReplyGoesOn ==
    [][ (pc = "check_completeness" /\ verdict'.reply \in { "prose", "badjson" })
          => /\ verdict'.source = "fallback"
             /\ pc' \in { "execute_tools", "save_output" }
             /\ status' \in { "needs_exploration", "completed" }
             /\ raised_by' = "none"
      ]_vars

C16_Witness ==
    /\ pc = "execute_tools"
    /\ verdict.reply = "badjson"
    /\ verdict.source = "fallback"
    /\ status = "needs_exploration"

(* C17, as claimed: whenever no verdict can be recovered from the reply     *)
(* (no block, or a block that does not parse), the fallback verdict has     *)
(* is_complete = (iteration_count >= 3), a confidence in [0.5, 0.7] and no  *)
(* proposed calls.                                                          *)
C17_OneFallbackVerdict ==
    (pc \in { "execute_tools", "save_output" } /\ verdict.source = "fallback")
        => /\ is_complete = (iteration_count >= 3)
           /\ confidence_score \in 50..70
           /\ ~is_complete => current_tool_results = JsonDumps(<< >>)

(* C17, amended: a reply without a block yields is_complete =               *)
(* (iteration_count >= 3), confidence 0.7 and no missing parts; a block     *)
(* that does not parse yields is_complete = false whatever the iteration,   *)
(* confidence 0.5 and the one missing part "unable to assess"; neither      *)
(* proposes a call.                                                         *)
C17_TwoFallbackVerdicts ==
    (pc \in { "execute_tools", "save_output" } /\ verdict.source = "fallback")
        => /\ verdict.reply = "prose" =>
                 /\ is_complete = (iteration_count >= 3)
                 /\ confidence_score = 70
                 /\ missing_parts = << >>
           /\ verdict.reply = "badjson" =>
                 /\ ~is_complete
                 /\ confidence_score = 50
                 /\ missing_parts = << "unable to assess" >>
           /\ verdict.reply \in { "prose", "badjson" }
           /\ ~is_complete => current_tool_results = JsonDumps(<< >>)

C17_Witness ==
    /\ pc = "execute_tools"
    /\ verdict.reply = "badjson"
    /\ iteration_count = 3
    /\ ~is_complete
    /\ confidence_score = 50

(* C19: in every reachable state confidence_score lies in [0.0, 1.0]        *)
(* (0..100 in hundredths), whatever confidence the evaluation replies hold. *)
C19_ConfidenceInRange == confidence_score \in 0..100

(* confidence values a verdict may carry, in and out of [0.0, 1.0] *)
AnyConfidence == { 0, 40, 50, 70, 79, 80, 100, 120 }

(* C20: the control path does not depend on confidence scores.  Only the   *)
(* evaluate step reads a confidence; whatever verdict it takes, the same    *)
(* verdict with any other confidence gives the same is_complete, the same   *)
(* status and the same next node, and the count of synthesis calls is left  *)
(* as it was.                                                               *)
C20_ConfidenceNeverGates ==
    [][ (pc = "check_completeness" /\ verdict'.source \in { "oracle", "fallback" })
          => \A c \in AnyConfidence :
               LET v == [ is_complete |-> verdict'.is_complete,
                          confidence_score |-> c,
                          missing_parts |-> missing_parts',
                          suggested_tools |-> << >> ]
                   st == IF VerdictIsComplete(v)
                         THEN "completed" ELSE "needs_exploration"
               IN  /\ is_complete' = VerdictIsComplete(v)
                   /\ status' = st
                   /\ pc' = EdgeFromCheck(st, VerdictIsComplete(v))
                   /\ synth_calls' = synth_calls
      ]_vars

C20_Witness ==
    /\ pc = "save_output"
    /\ verdict.source = "oracle"
    /\ is_complete
    /\ confidence_score = 40
    /\ iteration_count < max_iterations

(* the transitions of the claim, with INIT, SYNTHESIZE, EVALUATE, DISPATCH  *)
(* and PERSIST for the five nodes; DONE is END with status completed and    *)
(* ERROR is END with status error                                           *)
ClaimedTransitions ==
    { << "init", "generate_doc" >>, << "init", "END" >>,
      << "generate_doc", "check_completeness" >>, << "generate_doc", "END" >>,
      << "check_completeness", "save_output" >>,
      << "check_completeness", "execute_tools" >>,
      << "check_completeness", "END" >>,
      << "execute_tools", "generate_doc" >>, << "execute_tools", "END" >>,
      << "save_output", "END" >> }

(* C21: a run takes only the claimed transitions: a step ends the run only  *)
(* in DONE or ERROR (save_output with status completed or error, any other  *)
(* step with status error), execute_tools is entered only from an evaluate  *)
(* step whose verdict was incomplete, generate_doc only from init or        *)
(* execute_tools, and no step is taken from a terminal state.               *)
C21_OnlyClaimedTransitions ==
    [][ /\ << pc, pc' >> \in ClaimedTransitions
        /\ (pc # "save_output" /\ pc' = "END") => status' = "error"
        /\ (pc = "save_output" /\ pc' = "END")
              => status' \in { "completed", "error" }
        /\ pc' = "execute_tools"
              => (pc = "check_completeness" /\ ~verdict'.is_complete
                  /\ ~is_complete')
        /\ pc' = "generate_doc" => pc \in { "init", "execute_tools" }
        /\ pc \notin { "END", "raised" }
      ]_vars

(* C22: a final state returned to the caller (the graph reached END) has    *)
(* status completed or error, never an intermediate status.                 *)
C22_FinalStatus == pc = "END" => status \in { "completed", "error" }

C22_Witness ==
    /\ pc = "END"
    /\ status = "error"
    /\ error = "save_failed"
    /\ Len(document_versions) >= 1

(* C23: an interruption moves the run to ERROR (status error, with a        *)
(* cancellation description) and is honoured between steps only, so the     *)
(* state after it shows no partially applied step (every stored version     *)
(* is counted in iteration_count).                                          *)
C23_InterruptionBetweenSteps ==
    raised_by = "interrupt" =>
        /\ status = "error"
        /\ error # None
        /\ Len(document_versions) = iteration_count

(* C24: every handler is invoked with the run's repository root as          *)
(* repo_path, also when the proposed arguments carried another value, and   *)
(* the recorded ToolCall of every invoked handler shows the root.           *)
C24_RepoPathIsTheRoot ==
    /\ \A i \in 1..Len(pass.received) : pass.received[i].repo_path = "repo_root"
    /\ \A r \in 1..Len(exploration_history) :
         \A c \in 1..Len(exploration_history[r].tool_calls) :
            LET call == exploration_history[r].tool_calls[c] IN
            call.arguments.kind # "not_a_dict"
                => call.arguments.repo_path = "repo_root"

C24_Witness ==
    /\ status = "tools_executed"
    /\ max_tool_calls >= 1
    /\ pass.candidates # << >>
    /\ pass.candidates[1].tool \in TOOL_REGISTRY
    /\ pass.candidates[1].args.repo_path = "other"
    /\ pass.candidates[1].args.kind = "valid"
    /\ pass.received # << >>
    /\ pass.received[1].repo_path = "repo_root"
    /\ LastRecord.tool_calls[1].arguments.repo_path = "repo_root"

(* what a run's state holds: its fields and the contents of its two lists *)
RunView(r) ==
    IF run_states[r].pc = "none"
    THEN [ fields |-> NotStarted, versions |-> << >>, history |-> << >> ]
    ELSE [ fields |-> run_states[r],
           versions |-> heap[run_states[r].document_versions],
           history |-> heap[run_states[r].exploration_history] ]

(* C25: runs of one workflow object share no state: every step belongs to   *)
(* one run and changes no field of any other run's state, the contents of   *)
(* document_versions and exploration_history included.                      *)
C25_RunsShareNothing ==
    [][ \E s \in RunIds :
          \A r \in RunIds \ { s } : RunView(r)' = RunView(r) ]_vars

C25_Witness ==
    /\ \A r \in RunIds : run_states[r].pc # "none"
    /\ Len(RunView(1).versions) = 2
    /\ Len(RunView(2).versions) = 1
    /\ Len(RunView(2).history) = 1
    /\ Len(RunView(1).history) = 1

(* C26: document_versions is append-only: a synthesize step that returns    *)
(* keeps the earlier versions as a prefix and appends exactly one element,  *)
(* which is the new current_document; no other step changes the sequence.   *)
C26_VersionsAppendOnly ==
    [][ IF pc = "generate_doc" /\ pc' # "raised"
        THEN /\ Len(document_versions') = Len(document_versions) + 1
             /\ SubSeq(document_versions', 1, Len(document_versions))
                   = document_versions
             /\ document_versions'[Len(document_versions')] = current_document'
        ELSE document_versions' = document_versions
      ]_vars

C26_Witness ==
    /\ pc = "check_completeness"
    /\ Len(document_versions) = 2
    /\ document_versions[1] = DocumentOf(1)
    /\ document_versions[2] = DocumentOf(2)
    /\ current_document = DocumentOf(2)

(* C27: a synthesize step that returns leaves current_tool_results empty,   *)
(* and a synthesis call is given a bundle only by the dispatch pass made    *)
(* just before it: one pass, one call.                                      *)
C27_BundleConsumedOnce ==
    [][ pc = "generate_doc" =>
          /\ pc' # "raised" => current_tool_results' = EmptyStr
          /\ synth_input'.tool_results # EmptyStr
                => /\ status = "tools_executed"
                   /\ LastRecord.iteration = iteration_count
                   /\ Len(exploration_history) = synth_calls
      ]_vars

C27_Witness ==
    /\ pc = "check_completeness"
    /\ synth_input.mode = "update"
    /\ Len(synth_input.tool_results.val) = 2
    /\ current_tool_results = EmptyStr

(* C28: the first synthesis call is given the seed evidence and nothing     *)
(* else; every later call is given the document so far, the bundle of the   *)
(* dispatch pass made just before it (one entry per call that pass          *)
(* recorded) and the missing parts stored by the evaluate step before       *)
(* that pass.                                                               *)
C28_SynthesisEvidence ==
    [][ pc = "generate_doc" =>
          IF synth_calls = 0
          THEN /\ synth_input'.mode = "initial"
               /\ synth_input'.high_level_info = "seed"
               /\ synth_input'.tool_results = EmptyStr
          ELSE /\ synth_input'.mode = "update"
               /\ synth_input'.current_document = document_versions[synth_calls]
               /\ synth_input'.missing_parts = missing_parts
               /\ pass.selection # "none"
               /\ Len(synth_input'.tool_results.val) = Len(LastRecord.tool_calls)
               /\ \A i \in 1..Len(LastRecord.tool_calls) :
                     /\ synth_input'.tool_results.val[i].tool
                           = LastRecord.tool_calls[i].tool_name
                     /\ synth_input'.tool_results.val[i].ok
                           = LastRecord.tool_calls[i].success
      ]_vars

C28_Witness ==
    /\ pc = "check_completeness"
    /\ synth_calls = 2
    /\ synth_input.mode = "update"
    /\ synth_input.missing_parts = << "data model" >>
    /\ Len(synth_input.tool_results.val) = 1
    /\ synth_input.tool_results.val[1].ok

(* C29: only the synthesize step changes current_document,                  *)
(* document_versions and iteration_count: every evaluate, dispatch and      *)
(* persist step (and init) leaves all three as they were.                   *)
C29_OnlySynthesisWritesDocument ==
    [][ pc # "generate_doc" =>
          /\ current_document' = current_document
          /\ document_versions' = document_versions
          /\ iteration_count' = iteration_count
      ]_vars

C29_Witness ==
    /\ pc = "END"
    /\ status = "completed"
    /\ Len(exploration_history) = 1
    /\ LastRecord.action >= 1
    /\ iteration_count = 2
    /\ current_document = DocumentOf(2)
    /\ document_versions = << DocumentOf(1), DocumentOf(2) >>

(* C30: a dispatch pass appends exactly one ExplorationRecord and leaves    *)
(* the earlier records as they were; the record's iteration is the current  *)
(* iteration_count, its tool_calls are the calls of the pass in the order   *)
(* they were made, which is the order of the proposals, and its two counts  *)
(* are the number of recorded calls and the number of those with            *)
(* success = true.  No other step changes the history.                      *)
C30_OneRecordPerPass ==
    [][ IF pc = "execute_tools"
        THEN LET record == exploration_history'[Len(exploration_history')]
                 proposed == RegisteredNames(pass'.candidates)
             IN  /\ Len(exploration_history') = Len(exploration_history) + 1
                 /\ SubSeq(exploration_history', 1, Len(exploration_history))
                       = exploration_history
                 /\ record.iteration = iteration_count
                 /\ Len(record.tool_calls) = Len(pass'.invoked)
                 /\ Len(record.tool_calls) <= Len(proposed)
                 /\ \A i \in 1..Len(record.tool_calls) :
                       /\ record.tool_calls[i].tool_name = pass'.invoked[i]
                       /\ record.tool_calls[i].tool_name = proposed[i]
                 /\ record.action = Len(record.tool_calls)
                 /\ record.findings =
                       Cardinality({ i \in 1..Len(record.tool_calls) :
                                       record.tool_calls[i].success })
        ELSE exploration_history' = exploration_history
      ]_vars

C30_Witness ==
    /\ status = "tools_executed"
    /\ pc = "generate_doc"
    /\ Len(exploration_history) = 1
    /\ LastRecord.iteration = 1
    /\ LastRecord.action = 2
    /\ LastRecord.findings = 1
    /\ LastRecord.tool_calls[1].success
    /\ ~LastRecord.tool_calls[2].success

(* C31, as claimed: when the evaluator proposed no call and the selection   *)
(* call raises or its reply holds no block that parses, the pass executes   *)
(* exactly the fixed default call, and the run goes on to generate_doc      *)
(* without an error (looked at when the pass has returned, before the next *)
(* synthesis call has ended).                                               *)
C31_DefaultCallExecuted ==
    (pass.selection = "default" /\ pc # "raised") =>
        /\ pass.proposed = << >>
        /\ pass.invoked = << "list_files_by_extension" >>
        /\ Len(LastRecord.tool_calls) = 1
        /\ pc = "generate_doc"
        /\ status # "error" /\ error = None /\ raised_by = "none"

(* C31, amended: in that case the candidates are the fixed default call,    *)
(* cut to the budget like any other candidates: it is executed and recorded *)
(* when max_tool_calls_per_iteration >= 1, and no call is made when the     *)
(* budget is 0 or negative; either way the run goes on to generate_doc      *)
(* without an error.                                                        *)
C31_DefaultCallWithinBudget ==
    (pass.selection = "default" /\ pc # "raised") =>
        /\ pass.proposed = << >>
        /\ pass.candidates = DefaultToolCalls
        /\ pass.invoked = IF max_tool_calls >= 1
                          THEN << "list_files_by_extension" >> ELSE << >>
        /\ Len(LastRecord.tool_calls) = Len(pass.invoked)
        /\ \A i \in 1..Len(pass.invoked) :
              /\ LastRecord.tool_calls[i].tool_name = pass.invoked[i]
              /\ LastRecord.tool_calls[i].success
        /\ pc = "generate_doc"
        /\ status = "tools_executed" /\ error = None /\ raised_by = "none"

C31_Witness ==
    /\ pass.selection = "default"
    /\ pc = "generate_doc"
    /\ max_tool_calls >= 1
    /\ LastRecord.tool_calls[1].tool_name = "list_files_by_extension"
    /\ LastRecord.tool_calls[1].success
    /\ current_tool_results # EmptyStr

(* C32: the result text of every recorded ToolCall, of a call that          *)
(* succeeded or of one that failed, is at most 2000 characters long.        *)
C32_ResultWithinLimit ==
    \A r \in 1..Len(exploration_history) :
       \A c \in 1..Len(exploration_history[r].tool_calls) :
          exploration_history[r].tool_calls[c].result_length <= ResultLimit

(* the synthesis calls a run has made: those that returned, and the one     *)
(* that raised out of generate_doc_node                                     *)
SynthesisAttempts ==
    synth_calls +
      ( IF pc = "raised" /\ raised_by = "oracle" /\ verdict.source # "raise"
        THEN 1 ELSE 0 )

C34_CapSkipsEvaluation ==
    [][ /\ (pc = "check_completeness" /\ iteration_count >= max_iterations) =>
              /\ verdict'.source = "cap"
              /\ verdict'.reply = "none"
              /\ is_complete'
              /\ confidence_score' = confidence_score
              /\ missing_parts' = missing_parts
              /\ verdict.source = "none" =>
                    (confidence_score' = 0 /\ missing_parts' = << >>)
              /\ pc' = "save_output"
        /\ (confidence_score' # confidence_score \/ missing_parts' # missing_parts)
              => /\ pc = "check_completeness"
                 /\ verdict'.source \in { "oracle", "fallback" }
      ]_vars

C34_Witness ==
    /\ pc = "save_output"
    /\ verdict.source = "cap"
    /\ iteration_count = 2
    /\ is_complete
    /\ confidence_score = 120
    /\ missing_parts = << "data model" >>

(* C35: when no evaluation reply holds a block, a run with                  *)
(* max_iterations = N >= 1 makes exactly min(3, N) synthesis calls before   *)
(* it goes to save_output: execute_tools is entered only while fewer calls  *)
(* than that have returned, and save_output only when exactly that many     *)
(* have.                                                                    *)
C35_ProseRepliesEndAtThree ==
    /\ synth_calls <= Min(FallbackThreshold, max_iterations)
    /\ pc = "execute_tools" =>
          iteration_count < Min(FallbackThreshold, max_iterations)
    /\ pc \in { "save_output", "END" } =>
          /\ synth_calls = Min(FallbackThreshold, max_iterations)
          /\ iteration_count = Min(FallbackThreshold, max_iterations)

C35_Witness ==
    /\ pc = "save_output"
    /\ max_iterations > FallbackThreshold
    /\ synth_calls = FallbackThreshold
    /\ verdict.reply = "prose"
    /\ verdict.is_complete
    /\ Len(exploration_history) = 2

(* C36: when the evaluator proposed no call and the selection reply is a    *)
(* block whose tool_calls is empty or absent, the pass makes no call (the   *)
(* default call is not used), appends a record of 0 calls, leaves an empty  *)
(* bundle and goes on to generate_doc, whose synthesis call is an update    *)
(* given that empty bundle.                                                 *)
C36_EmptySelectionRunsNothing ==
    [][ /\ (pc = "execute_tools" /\ pass'.selected_nothing) =>
              LET record == exploration_history'[Len(exploration_history')] IN
              /\ pass'.proposed = << >>
              /\ pass'.selection = "llm"
              /\ pass'.candidates = << >>
              /\ pass'.invoked = << >>
              /\ Len(exploration_history') = Len(exploration_history) + 1
              /\ record.tool_calls = << >>
              /\ record.action = 0
              /\ record.findings = 0
              /\ current_tool_results' = EmptyStr
              /\ status' = "tools_executed"
              /\ pc' = "generate_doc"
        /\ (pc = "generate_doc" /\ pass.selected_nothing) =>
              /\ synth_input'.mode = "update"
              /\ synth_input'.tool_results = EmptyStr
      ]_vars

C36_Witness ==
    /\ pc = "generate_doc"
    /\ pass.selected_nothing
    /\ max_tool_calls >= 1
    /\ Len(exploration_history) = 1
    /\ LastRecord.action = 0
    /\ current_tool_results = EmptyStr
    /\ status = "tools_executed"

C38_CompletedRunSavedLastVersion ==
    (pc = "END" /\ status = "completed") =>
        /\ is_complete
        /\ iteration_count >= 1
        /\ document_versions # << >>
        /\ current_document = document_versions[Len(document_versions)]
        /\ saved_document = current_document

C38_Witness ==
    /\ pc = "END"
    /\ status = "completed"
    /\ iteration_count = 2
    /\ saved_document = DocumentOf(2)
    /\ document_versions = << DocumentOf(1), DocumentOf(2) >>

(* C39: in every reachable state status is error exactly when the error     *)
(* description is set; a run that ends with status completed has none.      *)
C39_ErrorIffDescription ==
    /\ (status = "error") <=> (error # None)
    /\ (pc = "END" /\ status = "completed") => error = None

C39_Witness ==
    /\ pc = "END"
    /\ status = "error"
    /\ error = "save_failed"
    /\ is_complete
    /\ saved_document = "unknown"

=============================================================================
